---- MODULE Spec2Model ----
(***************************************************************************)
(* Model of the outbound webhook notifier of the Smart PR Creator          *)
(* extension: src/src/services/webhookService.ts (class WebhookService).   *)
(*                                                                         *)
(* State: the persisted setting smartPrCreator.webhooks (storage), the     *)
(* in-memory working set (webhooks), the history log (history), the wall   *)
(* clock read by Date.now() (now), and the asynchronous calls in flight:   *)
(* one sendWebhook fan-out with its per-endpoint sendToWebhook deliveries, *)
(* one testWebhook delivery and the pending addWebhook / removeWebhook     *)
(* writes.  Every await of the code is a point where other steps may       *)
(* interleave; the code between two awaits is one atomic step.             *)
(***************************************************************************)
EXTENDS Integers, Sequences, FiniteSets, TLC

VARIABLES
    storage,        \* value of the setting smartPrCreator.webhooks
    webhooks,       \* WebhookService.webhooks : the working set
    history,        \* WebhookService.history
    now,            \* value Date.now() returns
    recorded,       \* number of addHistoryEntry calls made so far (observer)
    warnings,       \* number of vscode.window.showWarningMessage calls (observer)
    dispatchPc,     \* position of the sendWebhook call: idle, fanning, done
    dispatchEvent,  \* the event argument of the sendWebhook call
    deliveries,     \* the promises of relevantWebhooks.map(sendToWebhook)
    dispatchResult, \* how the sendWebhook call completed
    dispatches,     \* number of sendWebhook calls made so far
    testPc,         \* position of the testWebhook call: idle, running, done
    testDelivery,   \* the sendToWebhook call of testWebhook
    testResult,     \* the boolean testWebhook returned
    tests,          \* number of testWebhook calls made so far
    regOps,         \* addWebhook / removeWebhook calls awaiting config.update
    regResult,      \* how the last completed addWebhook / removeWebhook ended
    regCalls,       \* number of addWebhook / removeWebhook calls made so far
    probe,          \* arguments of the addHistoryEntry calls of SpecHistory
    failures,       \* failures.length in the sendWebhook call that completed last
    regDone,        \* the last addWebhook / removeWebhook call that completed (observer)
    edits,          \* number of changes made to the stored setting from outside
    editsSeen,      \* value of edits when the last sendWebhook call started (observer)
    listed,         \* the array a caller holds from getWebhooks
    budget,         \* calls of the service's methods this behaviour may make
    payload,        \* the WebhookPayload given to createTeamsMessage (SpecRender)
    message,        \* the TeamsMessage createTeamsMessage returned (SpecRender)
    pr,             \* the createPullRequest call of AzureCliService
    command,        \* endpoints added by the Add New Webhook command (observer)
    shown           \* what the View Webhook History command displayed

vars == <<storage, webhooks, history, now, recorded, warnings, dispatchPc,
          dispatchEvent, deliveries, dispatchResult, dispatches, testPc,
          testDelivery, testResult, tests, regOps, regResult, regCalls, probe,
          failures, regDone, edits, editsSeen, listed, budget, payload,
          message, pr, command, shown>>

(***************************************************************************)
(* Bounds of the model.                                                    *)
(***************************************************************************)
MaxRetry == 2          \* largest retryAttempts an endpoint is configured with
MaxClock == 1          \* the clock advances at most this many ticks
MaxCalls == 1          \* calls of the service's methods in one behaviour
MaxEdits == 1          \* changes made to the stored setting from outside
MaxRecords == 150      \* addHistoryEntry calls in one behaviour of SpecHistory

(***************************************************************************)
(* Program constants.                                                      *)
(***************************************************************************)
HistoryCap == 100      \* "Keep only last 100 entries"
DescriptionLimit == 300 \* pullRequest.description.length > 300
DefaultRetries == 3    \* webhook.retryAttempts || 3
TestRetries == 1       \* retryAttempts of the endpoint testWebhook builds

Names == {"w1", "w2"}
Urls == {"https://hook"}
Platforms == {"teams"}
WebhookEvent == {"pr_created", "pr_merged"}
EventLists == {{"pr_created"}, {"pr_merged"}}
ErrorTexts == {"Request timeout", "HTTP 500"}
TestName == "Test Webhook"
NoError == "undefined"
None == [st |-> "none"]

\* header name and value pairs: none, and the headers an endpoint of the
\* setting carries (package.json: endpoints.items.properties.headers)
NoHeaders == {}
CustomHeaders == {<<"X-Token", "secret">>}

\* interface WebhookConfig, as the typed argument of addWebhook: the
\* interface has no headers member
WebhookConfig ==
    [name : Names, url : Urls, enabled : BOOLEAN, events : EventLists,
     platform : Platforms, retryAttempts : 1..MaxRetry, headers : {NoHeaders}]

RECURSIVE Pow2(_)
Pow2(n) == IF n <= 0 THEN 1 ELSE 2 * Pow2(n - 1)

Min(a, b) == IF a <= b THEN a ELSE b

(***************************************************************************)
(* Configuration storage.  The setting holds either an array of            *)
(* WebhookConfig (what addWebhook writes) or the object                    *)
(* {enabled, endpoints} that package.json declares as its default; list    *)
(* is the array, or the endpoints of the object.                           *)
(***************************************************************************)
ArrayStorage(l) == [shape |-> "array", list |-> l]
ObjectStorage(l) == [shape |-> "object", list |-> l]

IsEnabled(w) == w.enabled

\* loadConfiguration reading the endpoints of whatever is stored
LoadAnyShape(st) == SelectSeq(st.list, IsEnabled)

\* loadConfiguration with the enabled filter left out
LoadUnfiltered(st) ==
    IF st.shape = "array" THEN st.list ELSE <<>>

\* loadConfiguration: the new value of this.webhooks.  On an object-shaped
\* setting webhookConfigs.filter is not a function, on an unreadable one the
\* read throws; the catch block sets [] and logs.
loadConfiguration(st) ==
    IF st.shape = "array" THEN SelectSeq(st.list, IsEnabled) ELSE <<>>

\* getWebhooks: a shallow copy of the working set
getWebhooks == webhooks

(***************************************************************************)
(* History log.                                                            *)
(***************************************************************************)
\* the WebhookHistoryItem addHistoryEntry builds; seq is the ordinal of the
\* call and by the sendToWebhook call that made it (observer fields, not in
\* the code)
HistoryItem(webhookName, event, success, url, responseTime, error, by) ==
    [id |-> now, webhookName |-> webhookName, event |-> event,
     timestamp |-> now, success |-> success, responseTime |-> responseTime,
     error |-> error, url |-> url, seq |-> recorded + 1, by |-> by]

\* addHistoryEntry without the truncation
AddUntruncated(h, item) == <<item>> \o h

\* addHistoryEntry truncating from the wrong end
AddKeepOldest(h, item) ==
    LET u == <<item>> \o h
    IN  IF Len(u) > HistoryCap THEN SubSeq(u, Len(u) - HistoryCap + 1, Len(u)) ELSE u

\* addHistoryEntry: unshift, then slice(0, 100) when longer than 100
addHistoryEntry(h, item) ==
    LET u == <<item>> \o h
    IN  IF Len(u) > HistoryCap THEN SubSeq(u, 1, HistoryCap) ELSE u

\* getWebhookHistory: a shallow copy of the log
getWebhookHistory == history

\* loadHistory: "we'll start with an empty history"
loadHistory == <<>>


(***************************************************************************)
(* Delivery engine: sendToWebhook.  A delivery is one call; it suspends at *)
(* await sendHttpRequest (st = "attempting") and at the backoff timer      *)
(* (st = "backoff"), and settles "fulfilled" (returned) or "rejected"      *)
(* (threw).  http counts the HTTP requests it issued, waits lists the      *)
(* setTimeout delays it asked for, in ms (observers).                      *)
(***************************************************************************)
\* webhook.retryAttempts || 3
maxRetriesOf(cfg) ==
    IF cfg.retryAttempts = 0 THEN DefaultRetries ELSE cfg.retryAttempts

\* the backoff indexed from 0: Math.pow(2, attempt - 1) * 1000
BackoffFromZero(attempt) == Pow2(attempt - 1) * 1000

\* Math.pow(2, attempt) * 1000
BackoffDelay(attempt) == Pow2(attempt) * 1000

\* JSON.stringify of the message created for the platform of the endpoint
Body(platform, ev) == <<platform, ev>>

NoRequest == [method |-> "none"]

\* the options sendHttpRequest(url, body, timeout) passes to client.request
sendHttpRequest(url, body) ==
    [method |-> "POST", url |-> url, body |-> body,
     headers |-> {<<"Content-Type", "application/json">>,
                  <<"Content-Length", "Buffer.byteLength(body)">>,
                  <<"User-Agent", "Smart-PR-Creator-Extension">>}]

\* sendToWebhook up to its first await: the loop is entered when
\* 1 <= maxRetries and the first request is issued; otherwise the call
\* returns at once
StartDelivery(cfg, ev, id) ==
    LET m == maxRetriesOf(cfg)
    IN  [id |-> id, cfg |-> cfg, event |-> ev, maxRetries |-> m, attempt |-> 1,
         st |-> IF 1 <= m THEN "attempting" ELSE "fulfilled",
         startTime |-> now, http |-> IF 1 <= m THEN 1 ELSE 0, waits |-> <<>>,
         error |-> NoError,
         request |-> IF 1 <= m
                     THEN sendHttpRequest(cfg.url, Body(cfg.platform, ev))
                     ELSE NoRequest]

\* the catch block of sendToWebhook is entered with the error of this attempt
Caught(d, err) == [d EXCEPT !.error = err]

\* the catch block giving up one attempt early
IsFinalAttemptEarly(d) == d.attempt >= d.maxRetries - 1

\* the catch block's test attempt === maxRetries
IsFinalAttempt(d) == d.attempt = d.maxRetries

\* the success branch without its return: the loop goes on
SuccessWithoutReturn(d) ==
    IF d.attempt + 1 <= d.maxRetries
    THEN [d EXCEPT !.attempt = @ + 1, !.http = @ + 1]
    ELSE [d EXCEPT !.st = "fulfilled"]

\* sendHttpRequest resolved: the entry is recorded and the call returns
AttemptSucceeded(d) == [d EXCEPT !.st = "fulfilled"]

\* sendHttpRequest rejected: throw after the final attempt, else start the
\* backoff timer
AttemptFailed(d) ==
    IF IsFinalAttempt(d)
    THEN [d EXCEPT !.st = "rejected"]
    ELSE [d EXCEPT !.st = "backoff",
                   !.waits = Append(@, BackoffDelay(d.attempt))]

\* the backoff timer fired: attempt++, loop test, next request
BackoffElapsed(d) ==
    IF d.attempt + 1 <= d.maxRetries
    THEN [d EXCEPT !.attempt = @ + 1, !.st = "attempting", !.http = @ + 1,
                   !.request = sendHttpRequest(d.cfg.url,
                                               Body(d.cfg.platform, d.event))]
    ELSE [d EXCEPT !.attempt = @ + 1, !.st = "fulfilled"]

\* the success branch storing its entry at index 0 instead of unshifting it
HistoryOnSuccessOverwrites(h, d) ==
    LET item == HistoryItem(d.cfg.name, d.event, TRUE, d.cfg.url,
                            now - d.startTime, NoError, d.id)
    IN  IF h = <<>> THEN <<item>> ELSE <<item>> \o Tail(h)

\* the history after the success branch of sendToWebhook
HistoryOnSuccess(h, d) ==
    addHistoryEntry(h, HistoryItem(d.cfg.name, d.event, TRUE, d.cfg.url,
                                   now - d.startTime, NoError, d.id))

\* a catch block that records an entry on every failed attempt
HistoryOnEveryFailure(h, d, err) ==
    addHistoryEntry(h, HistoryItem(d.cfg.name, d.event, FALSE, d.cfg.url,
                                   now - d.startTime, err, d.id))

\* the history after the catch block of sendToWebhook
HistoryOnFailure(h, d, err) ==
    IF IsFinalAttempt(d)
    THEN addHistoryEntry(h, HistoryItem(d.cfg.name, d.event, FALSE, d.cfg.url,
                                        now - d.startTime, err, d.id))
    ELSE h

Settled(d) == d.st \in {"fulfilled", "rejected"}

\* a fan-out in which the exhaustion of one delivery aborts the others
FailFastAfterFailure(ds, i) ==
    [j \in DOMAIN ds |->
        IF j = i THEN AttemptFailed(ds[i])
        ELSE IF IsFinalAttempt(ds[i]) /\ ~Settled(ds[j])
             THEN [ds[j] EXCEPT !.st = "rejected"]
             ELSE ds[j]]

\* the promises of the fan-out after the attempt of promise i failed: each
\* sendToWebhook call runs its own loop, so only promise i moves
DeliveriesAfterFailure(ds, i) == [ds EXCEPT ![i] = AttemptFailed(@)]

(***************************************************************************)
(* Dispatcher: sendWebhook.                                                *)
(***************************************************************************)
\* a sendWebhook that reads the stored setting at each call
DispatchRereads(ws, st) == loadConfiguration(st)

\* the list sendWebhook filters: this.webhooks, whatever the setting holds
DispatchSource(ws, st) == ws

\* a sendWebhook that falls back to every endpoint when none is subscribed
SubscribedOrAll(ws, ev) ==
    LET Subscribed(w) == ev \in w.events
    IN  IF SelectSeq(ws, Subscribed) = <<>> THEN ws ELSE SelectSeq(ws, Subscribed)

\* sendWebhook without the subscription filter
AllWebhooks(ws, ev) == ws

\* this.webhooks.filter(webhook => webhook.events.includes(event))
relevantWebhooks(ws, ev) ==
    LET Subscribed(w) == ev \in w.events
    IN  SelectSeq(ws, Subscribed)

\* the join of Promise.all: settles at the first rejection
FailFastJoin(ds) ==
    \/ \A i \in 1..Len(ds) : Settled(ds[i])
    \/ \E i \in 1..Len(ds) : ds[i].st = "rejected"

\* Promise.allSettled(promises) has resolved
AllSettled(ds) == \A i \in 1..Len(ds) : Settled(ds[i])

\* results.filter(r => r.status === 'rejected').length
CountRejected(ds) == Cardinality({i \in DOMAIN ds : ds[i].st = "rejected"})

\* the state of the promise Promise.allSettled returns: it never rejects
JoinOutcome(ds) == "fulfilled"

\* sendWebhook awaiting Promise.all with no catch around it
SendWebhookRethrows(ds) ==
    IF \E i \in 1..Len(ds) : ds[i].st = "rejected" THEN "raised" ELSE "returned"

\* how sendWebhook completes once the join has settled: the try block counts
\* and logs the failures, the catch block logs; neither throws
SendWebhookCompletion(ds) ==
    IF JoinOutcome(ds) = "rejected" THEN "returned" ELSE "returned"


(***************************************************************************)
(* Registry mutations: addWebhook and removeWebhook up to await            *)
(* config.update.                                                          *)
(***************************************************************************)
\* addWebhook without the findIndex test: always push
AlwaysPush(l, w) == Append(l, w)

\* addWebhook: replace the first entry of the same name, else push
Upsert(l, w) ==
    LET Same == {i \in 1..Len(l) : l[i].name = w.name}
        \* findIndex, 1-based; 0 when no entry matches
        existingIndex ==
            IF Same = {} THEN 0 ELSE CHOOSE i \in Same : \A j \in Same : i <= j
    IN  IF existingIndex >= 1 THEN [l EXCEPT ![existingIndex] = w]
        ELSE Append(l, w)

\* removeWebhook: existingWebhooks.filter(w => w.name !== webhookName)
RemoveByName(l, webhookName) ==
    LET Other(x) == x.name # webhookName
    IN  SelectSeq(l, Other)

RemoveAt(s, i) == SubSeq(s, 1, i - 1) \o SubSeq(s, i + 1, Len(s))

(***************************************************************************)
(* Initial state: the constructor has run loadConfiguration and            *)
(* loadHistory.  The setting is the package.json default object, or an     *)
(* array: empty, or two endpoints of distinct names of which the first     *)
(* retries and the second may be disabled, subscribed to the same event    *)
(* or to different ones.  addWebhook installs every other WebhookConfig.   *)
(***************************************************************************)
Endpoint(name, enabled, event, retryAttempts) ==
    [name |-> name, url |-> "https://hook", enabled |-> enabled,
     events |-> {event}, platform |-> "teams", retryAttempts |-> retryAttempts,
     headers |-> CustomHeaders]

InitLists ==
    {<<>>} \cup
    {<<Endpoint("w1", TRUE, "pr_created", MaxRetry), Endpoint("w2", en, ev, r)>> :
        en \in BOOLEAN, ev \in WebhookEvent, r \in {1, MaxRetry}}

\* a setting whose read throws
UnreadableStorage == [shape |-> "unreadable", list |-> <<>>]

InitStorages ==
    {ObjectStorage(<<>>),
     ObjectStorage(<<Endpoint("w1", TRUE, "pr_created", MaxRetry)>>),
     UnreadableStorage}
    \cup {ArrayStorage(l) : l \in InitLists}

NoCall == [kind |-> "none"]

\* no getWebhooks result is held: refs are the positions of this.webhooks
\* whose objects the held array refers to, live says whether this.webhooks
\* still is the array they were copied from
NotListed == [live |-> FALSE, refs |-> <<>>]

NoProbe == [webhookName |-> "none", success |-> FALSE]

NoPayload == [event |-> "none"]
NotRendered == [sections |-> <<>>]

\* nothing is being rendered
RenderIdle == payload = NoPayload /\ message = NotRendered

\* no createPullRequest call made, no command run
NoPullRequest == [pc |-> "idle", created |-> FALSE, outcome |-> "none"]
NoCommand == [added |-> {}, loaded |-> FALSE]
NotShown == [viewed |-> FALSE, list |-> <<>>, recorded |-> <<>>]

WorkflowIdle == pr = NoPullRequest /\ command = NoCommand /\ shown = NotShown

\* the state outside the service, at rest
InitExtension == RenderIdle /\ WorkflowIdle

InitService ==
    /\ webhooks = loadConfiguration(storage)
    /\ history = <<>>
    /\ now = 0
    /\ recorded = 0
    /\ warnings = 0
    /\ dispatchPc = "idle"
    /\ dispatchEvent = "none"
    /\ deliveries = <<>>
    /\ dispatchResult = "none"
    /\ dispatches = 0
    /\ failures = 0
    /\ testPc = "idle"
    /\ testDelivery = None
    /\ testResult = "none"
    /\ tests = 0
    /\ regOps = <<>>
    /\ regResult = "none"
    /\ regCalls = 0
    /\ regDone = NoCall
    /\ edits = 0
    /\ editsSeen = 0
    /\ listed = NotListed

Init ==
    /\ storage \in InitStorages
    /\ budget = MaxCalls
    /\ probe = NoProbe
    /\ InitService
    /\ InitExtension

(***************************************************************************)
(* Actions.                                                                *)
(***************************************************************************)
\* calls of sendWebhook, testWebhook, addWebhook and removeWebhook so far
Calls == dispatches + tests + regCalls

dispatchVars ==
    <<dispatchPc, dispatchEvent, deliveries, dispatchResult, dispatches, failures>>
testVars == <<testPc, testDelivery, testResult, tests>>
editVars == <<edits, editsSeen>>
extVars == <<budget, payload, message, pr, command, shown>>

\* Date.now() advances
Tick ==
    /\ now < MaxClock
    /\ now' = now + 1
    /\ UNCHANGED <<storage, webhooks, history, recorded, warnings, dispatchVars,
                   testVars, regOps, regResult, regCalls, probe, regDone,
                   editVars, listed, extVars>>

\* sendWebhook(event, payload) up to await Promise.allSettled; payload.event
\* is event, as at the call in AzureCliService.sendPRCreatedWebhook
StartDispatch(ev) ==
    /\ dispatchPc \in {"idle", "done"}
    /\ Calls < budget
    /\ dispatches' = dispatches + 1
    /\ dispatchEvent' = ev
    /\ editsSeen' = edits
    /\ LET relevant == relevantWebhooks(DispatchSource(webhooks, storage), ev)
       IN  IF Len(relevant) = 0
           THEN /\ deliveries' = <<>>
                /\ dispatchPc' = "done"
                /\ dispatchResult' = "returned"
           ELSE /\ deliveries' =
                       [i \in 1..Len(relevant) |->
                           StartDelivery(relevant[i], ev, <<"dispatch", dispatches + 1, i>>)]
                /\ dispatchPc' = "fanning"
                /\ dispatchResult' = "none"
    /\ UNCHANGED <<storage, webhooks, history, now, recorded, warnings, testVars,
                   regOps, regResult, regCalls, probe, failures, regDone,
                   edits, listed>>

\* a sendWebhook call made on the service directly
SendWebhook(ev) == StartDispatch(ev) /\ UNCHANGED extVars

\* sendHttpRequest of delivery i resolved (status 2xx)
HttpSuccess(i) ==
    /\ dispatchPc = "fanning"
    /\ i \in 1..Len(deliveries)
    /\ deliveries[i].st = "attempting"
    /\ deliveries' = [deliveries EXCEPT ![i] = AttemptSucceeded(@)]
    /\ history' = HistoryOnSuccess(history, deliveries[i])
    /\ recorded' = recorded + 1
    /\ UNCHANGED <<storage, webhooks, now, warnings, dispatchPc, dispatchEvent,
                   dispatchResult, dispatches, testVars, regOps, regResult,
                   regCalls, probe, failures, regDone,
                   editVars, listed, extVars>>

\* sendHttpRequest of delivery i rejected (network error, timeout, non-2xx)
HttpFailure(i, err) ==
    /\ dispatchPc = "fanning"
    /\ i \in 1..Len(deliveries)
    /\ deliveries[i].st = "attempting"
    /\ deliveries' = DeliveriesAfterFailure(
                         [deliveries EXCEPT ![i] = Caught(@, err)], i)
    /\ history' = HistoryOnFailure(history, deliveries[i], err)
    /\ recorded' = IF IsFinalAttempt(deliveries[i]) THEN recorded + 1 ELSE recorded
    /\ warnings' = IF IsFinalAttempt(deliveries[i]) THEN warnings + 1 ELSE warnings
    /\ UNCHANGED <<storage, webhooks, now, dispatchPc, dispatchEvent,
                   dispatchResult, dispatches, testVars, regOps, regResult,
                   regCalls, probe, failures, regDone,
                   editVars, listed, extVars>>

\* the backoff timer of delivery i fired
BackoffTimer(i) ==
    /\ dispatchPc = "fanning"
    /\ i \in 1..Len(deliveries)
    /\ deliveries[i].st = "backoff"
    /\ deliveries' = [deliveries EXCEPT ![i] = BackoffElapsed(@)]
    /\ UNCHANGED <<storage, webhooks, history, now, recorded, warnings, dispatchPc,
                   dispatchEvent, dispatchResult, dispatches, testVars, regOps,
                   regResult, regCalls, probe, failures, regDone,
                   editVars, listed, extVars>>

\* the join settled: sendWebhook completes
Join ==
    /\ dispatchPc = "fanning"
    /\ AllSettled(deliveries)
    /\ dispatchPc' = "done"
    /\ dispatchResult' = SendWebhookCompletion(deliveries)
    /\ failures' = CountRejected(deliveries)
    /\ UNCHANGED <<storage, webhooks, history, now, recorded, warnings,
                   dispatchEvent, deliveries, dispatches, testVars, regOps,
                   regResult, regCalls, probe, regDone,
                   editVars, listed, extVars>>


\* a test configuration that retries like a configured endpoint
TestConfigRetrying(url, platform) ==
    [name |-> TestName, url |-> url, enabled |-> TRUE, events |-> {"pr_created"},
     platform |-> platform, retryAttempts |-> MaxRetry, headers |-> NoHeaders]

\* the WebhookConfig testWebhook builds
TestConfig(url, platform) ==
    [name |-> TestName, url |-> url, enabled |-> TRUE, events |-> {"pr_created"},
     platform |-> platform, retryAttempts |-> TestRetries, headers |-> NoHeaders]

\* testWebhook(url, platform) up to await sendToWebhook
TestWebhook(url, platform) ==
    /\ testPc \in {"idle", "done"}
    /\ Calls < budget
    /\ tests' = tests + 1
    /\ testDelivery' = StartDelivery(TestConfig(url, platform), "pr_created",
                                     <<"test", tests + 1, 1>>)
    /\ testPc' = "running"
    /\ testResult' = "none"
    /\ UNCHANGED <<storage, webhooks, history, now, recorded, warnings,
                   dispatchVars, regOps, regResult, regCalls, probe, regDone,
                   editVars, listed, extVars>>

\* sendHttpRequest of the test delivery resolved
TestHttpSuccess ==
    /\ testPc = "running"
    /\ testDelivery.st = "attempting"
    /\ testDelivery' = AttemptSucceeded(testDelivery)
    /\ history' = HistoryOnSuccess(history, testDelivery)
    /\ recorded' = recorded + 1
    /\ UNCHANGED <<storage, webhooks, now, warnings, dispatchVars, testPc,
                   testResult, tests, regOps, regResult, regCalls, probe, regDone,
                   editVars, listed, extVars>>

\* sendHttpRequest of the test delivery rejected
TestHttpFailure(err) ==
    /\ testPc = "running"
    /\ testDelivery.st = "attempting"
    /\ testDelivery' = AttemptFailed(Caught(testDelivery, err))
    /\ history' = HistoryOnFailure(history, testDelivery, err)
    /\ recorded' = IF IsFinalAttempt(testDelivery) THEN recorded + 1 ELSE recorded
    /\ warnings' = IF IsFinalAttempt(testDelivery) THEN warnings + 1 ELSE warnings
    /\ UNCHANGED <<storage, webhooks, now, dispatchVars, testPc, testResult,
                   tests, regOps, regResult, regCalls, probe, regDone,
                   editVars, listed, extVars>>

\* testWebhook returns true, or false from its catch block
TestReturn ==
    /\ testPc = "running"
    /\ Settled(testDelivery)
    /\ testPc' = "done"
    /\ testResult' = (testDelivery.st = "fulfilled")
    /\ UNCHANGED <<storage, webhooks, history, now, recorded, warnings,
                   dispatchVars, testDelivery, tests, regOps, regResult,
                   regCalls, probe, regDone,
                   editVars, listed, extVars>>

\* the working set after a rejected write, had addWebhook put the endpoint
\* into it before writing
WorkingSetOptimistic(ws, op) == loadConfiguration(ArrayStorage(op.value))

\* the working set after config.update rejected: loadConfiguration is not
\* reached, this.webhooks is not assigned
WorkingSetOnWriteFailure(ws, op) == ws

\* whether config.get('webhooks') || [] yields an array the call can work on
Readable(st) == st.shape = "array"

\* a call of addWebhook or removeWebhook suspended at await config.update:
\* base is the list it read, value the list it writes
PendingCall(kind, name, webhook, base, value) ==
    [kind |-> kind, name |-> name, webhook |-> webhook, base |-> base,
     value |-> value]

\* a completed call; cause says why it raised: "read" (the stored value is
\* no array), "write" (config.update rejected) or "none" (it returned)
CompletedCall(op, cause) ==
    [kind |-> op.kind, name |-> op.name, webhook |-> op.webhook,
     base |-> op.base, value |-> op.value, cause |-> cause]

\* addWebhook(webhook) up to await config.update.  On an object-shaped
\* setting existingWebhooks.findIndex is not a function and the catch block
\* throws.
AddWebhook(w) ==
    /\ Calls < budget
    /\ regCalls' = regCalls + 1
    /\ IF Readable(storage)
       THEN /\ regOps' = Append(regOps, PendingCall("add", w.name, w, storage.list,
                                                    Upsert(storage.list, w)))
            /\ regResult' = regResult
            /\ regDone' = regDone
       ELSE /\ regOps' = regOps
            /\ regResult' = "raised"
            /\ regDone' = CompletedCall(PendingCall("add", w.name, w, storage.list,
                                                    storage.list), "read")
    /\ UNCHANGED <<storage, webhooks, history, now, recorded, warnings,
                   dispatchVars, testVars, probe,
                   editVars, listed, extVars>>

\* removeWebhook(webhookName) up to await config.update; existingWebhooks.filter
\* is not a function on an object-shaped setting
RemoveWebhook(webhookName) ==
    /\ Calls < budget
    /\ regCalls' = regCalls + 1
    /\ IF Readable(storage)
       THEN /\ regOps' = Append(regOps, PendingCall("remove", webhookName, None,
                                    storage.list,
                                    RemoveByName(storage.list, webhookName)))
            /\ regResult' = regResult
            /\ regDone' = regDone
       ELSE /\ regOps' = regOps
            /\ regResult' = "raised"
            /\ regDone' = CompletedCall(PendingCall("remove", webhookName, None,
                                    storage.list, storage.list), "read")
    /\ UNCHANGED <<storage, webhooks, history, now, recorded, warnings,
                   dispatchVars, testVars, probe,
                   editVars, listed, extVars>>

\* a reload that cancels the deliveries to endpoints no longer in the
\* working set
CancelRemoved(ds, ws) ==
    [j \in DOMAIN ds |->
        IF ~Settled(ds[j]) /\ ~\E k \in DOMAIN ws : ws[k].name = ds[j].cfg.name
        THEN [ds[j] EXCEPT !.st = "rejected"]
        ELSE ds[j]]

\* the promises of a fan-out in flight after loadConfiguration assigned a
\* new array to this.webhooks: each sendToWebhook call holds the
\* configuration object it was called with
DeliveriesAfterReload(ds, ws) == ds

\* config.update of pending call i resolved: the setting is written, then
\* loadConfiguration runs and the call returns
UpdateResolved(i) ==
    /\ i \in 1..Len(regOps)
    /\ storage' = ArrayStorage(regOps[i].value)
    /\ webhooks' = loadConfiguration(storage')
    /\ regOps' = RemoveAt(regOps, i)
    /\ regResult' = "returned"
    /\ regDone' = CompletedCall(regOps[i], "none")
    /\ listed' = [listed EXCEPT !.live = FALSE]
    /\ deliveries' = DeliveriesAfterReload(deliveries, webhooks')
    /\ UNCHANGED <<history, now, recorded, warnings, dispatchPc, dispatchEvent,
                   dispatchResult, dispatches, failures, testVars, regCalls,
                   probe, editVars, extVars>>

\* config.update of pending call i rejected: the catch block throws
UpdateRejected(i) ==
    /\ i \in 1..Len(regOps)
    /\ webhooks' = WorkingSetOnWriteFailure(webhooks, regOps[i])
    /\ regOps' = RemoveAt(regOps, i)
    /\ regResult' = "raised"
    /\ regDone' = CompletedCall(regOps[i], "write")
    /\ UNCHANGED <<storage, history, now, recorded, warnings,
                   dispatchVars, testVars, regCalls, probe,
                   editVars, listed, extVars>>

Next ==
    \/ Tick
    \/ \E ev \in WebhookEvent : SendWebhook(ev)
    \/ \E i \in DOMAIN deliveries : HttpSuccess(i)
    \/ \E i \in DOMAIN deliveries, err \in ErrorTexts : HttpFailure(i, err)
    \/ \E i \in DOMAIN deliveries : BackoffTimer(i)
    \/ Join
    \/ \E url \in Urls, platform \in Platforms : TestWebhook(url, platform)
    \/ TestHttpSuccess
    \/ \E err \in ErrorTexts : TestHttpFailure(err)
    \/ TestReturn
    \/ \E w \in WebhookConfig : AddWebhook(w)
    \/ \E n \in Names : RemoveWebhook(n)
    \/ \E i \in DOMAIN regOps : UpdateResolved(i)
    \/ \E i \in DOMAIN regOps : UpdateRejected(i)

Spec == Init /\ [][Next]_vars

(***************************************************************************)
(* The setting changed from outside the service: the user edits            *)
(* settings.json, or another component calls config.update.  The service   *)
(* registers no configuration listener.                                    *)
(***************************************************************************)
\* the enabled flag of stored endpoint k is flipped
ExternalEdit(k) ==
    /\ edits < MaxEdits
    /\ Readable(storage)
    /\ k \in DOMAIN storage.list
    /\ storage' = [storage EXCEPT !.list[k].enabled = ~@]
    /\ edits' = edits + 1
    /\ UNCHANGED <<webhooks, history, now, recorded, warnings, dispatchVars,
                   testVars, regOps, regResult, regCalls, probe, regDone,
                   editsSeen, listed, extVars>>

\* the dispatcher and the registry, with the setting changed from outside
NextEdit ==
    \/ \E ev \in WebhookEvent : SendWebhook(ev)
    \/ \E i \in DOMAIN deliveries : HttpSuccess(i)
    \/ \E i \in DOMAIN deliveries, err \in ErrorTexts : HttpFailure(i, err)
    \/ \E i \in DOMAIN deliveries : BackoffTimer(i)
    \/ Join
    \/ \E w \in WebhookConfig : AddWebhook(w)
    \/ \E n \in Names : RemoveWebhook(n)
    \/ \E i \in DOMAIN regOps : UpdateResolved(i)
    \/ \E i \in DOMAIN regOps : UpdateRejected(i)
    \/ \E k \in DOMAIN storage.list : ExternalEdit(k)

SpecEdit == Init /\ [][NextEdit]_vars

(***************************************************************************)
(* The dispatcher alone, on endpoints whose retryAttempts the setting       *)
(* gives as any number (package.json: "type": "number"): negative, 0 (which *)
(* || 3 treats like a missing value), or positive.  Every HTTP request      *)
(* settles (response, error or the timeout event), every backoff timer      *)
(* fires, and the continuation of a settled join runs.                      *)
(***************************************************************************)
RetryValues == {0 - 1, 0, 1, MaxRetry}

InitRetry ==
    /\ storage \in {ArrayStorage(<<Endpoint("w1", TRUE, "pr_created", r1),
                                    Endpoint("w2", TRUE, "pr_created", r2)>>) :
                        r1 \in RetryValues, r2 \in RetryValues}
    /\ budget = MaxCalls
    /\ probe = NoProbe
    /\ InitService
    /\ InitExtension

\* the request of delivery i settles
Settle(i) ==
    \/ HttpSuccess(i)
    \/ \E err \in ErrorTexts : HttpFailure(i, err)

NextRetry ==
    \/ \E ev \in WebhookEvent : SendWebhook(ev)
    \/ \E i \in DOMAIN deliveries : Settle(i)
    \/ \E i \in DOMAIN deliveries : BackoffTimer(i)
    \/ Join

SpecRetry ==
    /\ InitRetry
    /\ [][NextRetry]_vars
    /\ \A i \in 1..Cardinality(Names) :
          WF_vars(Settle(i)) /\ WF_vars(BackoffTimer(i))
    /\ WF_vars(Join)

(***************************************************************************)
(* The dispatcher and the registry with one call more than the budget of   *)
(* Spec, so that calls overlap at their awaits: a fan-out with an          *)
(* addWebhook or removeWebhook, or two registry calls.                     *)
(***************************************************************************)
InitOverlap ==
    /\ storage \in {ArrayStorage(<<>>),
                     ArrayStorage(<<Endpoint("w1", TRUE, "pr_created", MaxRetry),
                                    Endpoint("w2", TRUE, "pr_created", 1)>>)}
    /\ budget = MaxCalls + 1
    /\ probe = NoProbe
    /\ InitService
    /\ InitExtension

NextOverlap ==
    \/ \E ev \in WebhookEvent : SendWebhook(ev)
    \/ \E i \in DOMAIN deliveries : HttpSuccess(i)
    \/ \E i \in DOMAIN deliveries, err \in ErrorTexts : HttpFailure(i, err)
    \/ \E i \in DOMAIN deliveries : BackoffTimer(i)
    \/ Join
    \/ \E w \in WebhookConfig : AddWebhook(w)
    \/ \E n \in Names : RemoveWebhook(n)
    \/ \E i \in DOMAIN regOps : UpdateResolved(i)
    \/ \E i \in DOMAIN regOps : UpdateRejected(i)

SpecOverlap == InitOverlap /\ [][NextOverlap]_vars

(***************************************************************************)
(* createTeamsMessage as a function of the payload.  A description is a    *)
(* sequence of characters; NoModel and NoUrl stand for a missing modelUsed *)
(* and an empty url, both falsy.                                           *)
(***************************************************************************)
Whitespace == {" ", "\t", "\n"}
NoModel == "undefined"
NoUrl == ""

\* the string as it is, not trimmed
Untrimmed(str) == str

\* String.prototype.trim
trim(str) ==
    LET lead == {i \in 1..Len(str) : \A j \in 1..i : str[j] \in Whitespace}
        trail == {i \in 1..Len(str) : \A j \in i..Len(str) : str[j] \in Whitespace}
    IN  SubSeq(str, Cardinality(lead) + 1, Len(str) - Cardinality(trail))

\* description.length > 300 ? description.substring(0, 300) + '...' : description
Truncated(description) ==
    IF Len(description) > DescriptionLimit
    THEN SubSeq(description, 1, DescriptionLimit) \o <<".", ".", ".">>
    ELSE description

\* the facts of the first section: the six fixed ones, then the AI fact
Facts(pullRequest) ==
    <<"Repository", "Branch", "Author", "Files Changed", "Commits", "Created">>
    \o (IF pullRequest.aiGenerated /\ pullRequest.modelUsed # NoModel
        THEN <<"AI Generated">>
        ELSE <<>>)

\* the message card createTeamsMessage(payload) returns
createTeamsMessage(p) ==
    LET pullRequest == p.pullRequest
        first == [activityTitle |-> p.event, facts |-> Facts(pullRequest),
                  activitySubtitle |-> <<>>]
        described == pullRequest.description # <<>>
                     /\ Len(trim(pullRequest.description)) > 0
    IN  [sections |->
             IF described
             THEN <<first, [activityTitle |-> "Description", facts |-> <<>>,
                            activitySubtitle |-> Truncated(pullRequest.description)]>>
             ELSE <<first>>,
         potentialAction |->
             IF pullRequest.url # NoUrl
             THEN <<[name |-> "View Pull Request", uri |-> pullRequest.url]>>
             ELSE <<>>]

\* descriptions: empty, blank, text with blanks around it, and one longer
\* than the limit
Descriptions ==
    {<<>>, <<" ">>, <<" ", "\n">>, <<"a">>, <<" ", "a", " ">>, <<"a", " ">>,
     [i \in 1..(DescriptionLimit + 1) |-> "a"]}

Payloads ==
    [event : WebhookEvent,
     pullRequest : [description : Descriptions, url : {NoUrl, "https://pr/1"},
                    aiGenerated : BOOLEAN, modelUsed : {NoModel, "GPT-4o"}]]

InitRender ==
    /\ storage = ObjectStorage(<<>>)
    /\ budget = MaxCalls
    /\ probe = NoProbe
    /\ InitService
    /\ payload \in Payloads
    /\ message = NotRendered
    /\ WorkflowIdle

\* sendToWebhook, case 'teams': the message is created
Render ==
    /\ message = NotRendered
    /\ message' = createTeamsMessage(payload)
    /\ UNCHANGED <<storage, webhooks, history, now, recorded, warnings,
                   dispatchVars, testVars, regOps, regResult, regCalls, probe,
                   regDone, editVars, listed, budget, payload, pr, command,
                   shown>>

NextRender == Render

SpecRender == InitRender /\ [][NextRender]_vars

(***************************************************************************)
(* The extension around the service: AzureCliService.createPullRequest,    *)
(* which owns the WebhookService that dispatches, and the commands of      *)
(* extension.ts that add an endpoint and show the history.                 *)
(***************************************************************************)
\* sendPRCreatedWebhook with no try/catch around its body
PropagatesFailure(thrown) == IF thrown THEN "raised" ELSE "returned"

\* how sendPRCreatedWebhook completes when its body did or did not throw:
\* the catch block logs to the console
sendPRCreatedWebhook(thrown) == IF thrown THEN "returned" ELSE "returned"

\* how createPullRequest completes after the PR was created: a rejection of
\* the awaited sendPRCreatedWebhook reaches the outer catch, which throws
\* 'Failed to create pull request'; otherwise return result
createPullRequest(webhookStep) ==
    IF webhookStep = "raised" THEN "raised" ELSE "returned"

\* createPullRequest is called and awaits the az command
PrStart ==
    /\ pr.pc \in {"idle", "done"}
    /\ pr' = [pc |-> "exec", created |-> FALSE, outcome |-> "none"]
    /\ UNCHANGED <<storage, webhooks, history, now, recorded, warnings,
                   dispatchVars, testVars, regOps, regResult, regCalls, probe,
                   regDone, editVars, listed, budget, payload, message, command,
                   shown>>

\* the az command failed: the outer catch throws, no PR exists
PrExecFails ==
    /\ pr.pc = "exec"
    /\ pr' = [pr EXCEPT !.pc = "done", !.outcome = "raised"]
    /\ UNCHANGED <<storage, webhooks, history, now, recorded, warnings,
                   dispatchVars, testVars, regOps, regResult, regCalls, probe,
                   regDone, editVars, listed, budget, payload, message, command,
                   shown>>

\* the az command created the PR; sendPRCreatedWebhook starts building the
\* payload (getCurrentUser, getChangedFilesCount, getCommitsCount)
PrExecSucceeds ==
    /\ pr.pc = "exec"
    /\ pr' = [pr EXCEPT !.pc = "building", !.created = TRUE]
    /\ UNCHANGED <<storage, webhooks, history, now, recorded, warnings,
                   dispatchVars, testVars, regOps, regResult, regCalls, probe,
                   regDone, editVars, listed, budget, payload, message, command,
                   shown>>

\* building the payload throws, or the sendWebhook call itself rejects (an
\* endpoint of the working set without an events array makes
\* webhook.events.includes throw)
PrNotificationThrows ==
    /\ pr.pc = "building"
    /\ pr' = [pr EXCEPT !.pc = "done",
                        !.outcome = createPullRequest(sendPRCreatedWebhook(TRUE))]
    /\ UNCHANGED <<storage, webhooks, history, now, recorded, warnings,
                   dispatchVars, testVars, regOps, regResult, regCalls, probe,
                   regDone, editVars, listed, budget, payload, message, command,
                   shown>>

\* the payload is built and sendWebhook('pr_created', payload) is called
PrDispatch ==
    /\ pr.pc = "building"
    /\ StartDispatch("pr_created")
    /\ pr' = [pr EXCEPT !.pc = "awaiting"]
    /\ UNCHANGED <<budget, payload, message, command, shown>>

\* the awaited sendWebhook call completed: createPullRequest returns result
PrReturn ==
    /\ pr.pc = "awaiting"
    /\ dispatchPc = "done"
    /\ pr' = [pr EXCEPT !.pc = "done",
                        !.outcome = createPullRequest(
                                        sendPRCreatedWebhook(dispatchResult = "raised"))]
    /\ UNCHANGED <<storage, webhooks, history, now, recorded, warnings,
                   dispatchVars, testVars, regOps, regResult, regCalls, probe,
                   regDone, editVars, listed, budget, payload, message, command,
                   shown>>

\* the endpoint the Add New Webhook command builds: it has no enabled and no
\* platform member (enabled reads as undefined, which is falsy; the switch
\* on platform takes its default branch)
NewWebhook(name) ==
    [name |-> name, url |-> "https://hook", enabled |-> FALSE,
     events |-> {"pr_created"}, platform |-> "generic",
     retryAttempts |-> DefaultRetries, headers |-> {<<"Content-Type", "application/json">>}]

\* addNewWebhook of extension.ts with PR Created selected: the endpoint is
\* pushed to webhooksConfig.endpoints and the object is written.  On an
\* array-valued setting endpoints is undefined and the command fails.
AddNewWebhook(name) ==
    /\ storage.shape = "object"
    /\ name \notin command.added
    /\ storage' = ObjectStorage(Append(storage.list, NewWebhook(name)))
    /\ command' = [added |-> command.added \cup {name}, loaded |-> FALSE]
    /\ UNCHANGED <<webhooks, history, now, recorded, warnings,
                   dispatchVars, testVars, regOps, regResult, regCalls, probe,
                   regDone, editVars, listed, budget, payload, message, pr, shown>>

\* the window is reloaded: new AzureCliService(), whose constructor makes the
\* WebhookService that dispatches; its constructor loads the registry and
\* the history
Activate ==
    /\ pr.pc \in {"idle", "done"}
    /\ dispatchPc # "fanning"
    /\ webhooks' = loadConfiguration(storage)
    /\ history' = loadHistory
    /\ recorded' = 0
    /\ command' = [command EXCEPT !.loaded = TRUE]
    /\ UNCHANGED <<storage, now, warnings,
                   dispatchVars, testVars, regOps, regResult, regCalls, probe,
                   regDone, editVars, listed, budget, payload, message, pr, shown>>

\* viewWebhookHistory of extension.ts: new WebhookService(), whose
\* constructor runs loadHistory, then getWebhookHistory() of that object;
\* recorded is the log of the dispatching service at that moment
ViewWebhookHistory ==
    /\ shown' = [viewed |-> TRUE, list |-> loadHistory, recorded |-> history]
    /\ shown' # shown
    /\ UNCHANGED <<storage, webhooks, history, now, recorded, warnings,
                   dispatchVars, testVars, regOps, regResult, regCalls, probe,
                   regDone, editVars, listed, budget, payload, message, pr,
                   command>>

InitExtensionHost ==
    /\ storage \in {ObjectStorage(<<>>),
                     ArrayStorage(<<Endpoint("w1", TRUE, "pr_created", MaxRetry),
                                    Endpoint("w2", TRUE, "pr_created", 1)>>)}
    /\ budget = MaxCalls
    /\ probe = NoProbe
    /\ InitService
    /\ InitExtension

NextExtension ==
    \/ PrStart
    \/ PrExecFails
    \/ PrExecSucceeds
    \/ PrNotificationThrows
    \/ PrDispatch
    \/ \E i \in DOMAIN deliveries : HttpSuccess(i)
    \/ \E i \in DOMAIN deliveries, err \in ErrorTexts : HttpFailure(i, err)
    \/ \E i \in DOMAIN deliveries : BackoffTimer(i)
    \/ Join
    \/ PrReturn
    \/ \E name \in Names : AddNewWebhook(name)
    \/ Activate
    \/ ViewWebhookHistory

SpecExtension == InitExtensionHost /\ [][NextExtension]_vars

(***************************************************************************)
(* A caller of getWebhooks and what it does with the array it got.         *)
(***************************************************************************)
\* Seq of 1..n
Positions(n) == [i \in 1..n |-> i]

\* getWebhooks(): [...this.webhooks], a new array of the same objects
GetWebhooks ==
    /\ listed' = [live |-> TRUE, refs |-> Positions(Len(getWebhooks))]
    /\ listed' # listed
    /\ UNCHANGED <<storage, webhooks, history, now, recorded, warnings,
                   dispatchVars, testVars, regOps, regResult, regCalls, probe,
                   regDone, editVars, extVars>>

\* the caller pops the last element off the array it holds
CallerPops ==
    /\ listed.refs # <<>>
    /\ listed' = [listed EXCEPT !.refs = SubSeq(@, 1, Len(@) - 1)]
    /\ UNCHANGED <<storage, webhooks, history, now, recorded, warnings,
                   dispatchVars, testVars, regOps, regResult, regCalls, probe,
                   regDone, editVars, extVars>>

\* the caller assigns the events of element j of the array it holds; the
\* element is the object this.webhooks holds as long as no reload replaced
\* this.webhooks
CallerSetsEvents(j, evs) ==
    /\ listed.live
    /\ j \in DOMAIN listed.refs
    /\ webhooks' = [webhooks EXCEPT ![listed.refs[j]].events = evs]
    /\ webhooks' # webhooks
    /\ UNCHANGED <<storage, history, now, recorded, warnings,
                   dispatchVars, testVars, regOps, regResult, regCalls, probe,
                   regDone, editVars, listed, extVars>>

NextCopy ==
    \/ Next
    \/ GetWebhooks
    \/ CallerPops
    \/ \E j \in DOMAIN listed.refs, evs \in EventLists \cup {{}} :
          CallerSetsEvents(j, evs)

SpecCopy == Init /\ [][NextCopy]_vars


(***************************************************************************)
(* The history log on its own: addHistoryEntry called MaxRecords times in  *)
(* a row with the arguments drawn in the initial state.                    *)
(***************************************************************************)
Probes == [webhookName : Names, success : BOOLEAN]

InitHistory ==
    /\ storage = ObjectStorage(<<>>)
    /\ budget = MaxCalls
    /\ probe \in Probes
    /\ InitService
    /\ InitExtension

\* one addHistoryEntry call
RecordEntry ==
    /\ recorded < MaxRecords
    /\ history' = addHistoryEntry(history,
                      HistoryItem(probe.webhookName, "pr_created", probe.success,
                                  "https://hook", 0,
                                  IF probe.success THEN NoError ELSE "HTTP 500",
                                  <<"probe", recorded + 1, 1>>))
    /\ recorded' = recorded + 1
    /\ UNCHANGED <<storage, webhooks, now, warnings, dispatchVars, testVars,
                   regOps, regResult, regCalls, probe, regDone,
                   editVars, listed, extVars>>

NextHistory == RecordEntry

SpecHistory == InitHistory /\ [][NextHistory]_vars


(***************************************************************************)
(* Properties.                                                             *)
(***************************************************************************)
\* the sendToWebhook calls made so far by the current fan-out and test
Fanout == {deliveries[i] : i \in DOMAIN deliveries}
Calling == Fanout \cup (IF testPc = "idle" THEN {} ELSE {testDelivery})

\* the positions of the history entries a sendToWebhook call recorded
EntriesBy(d) == {k \in DOMAIN history : history[k].by = d.id}

\* C1: whatever mix of endpoint deliveries failed (error, timeout, non-2xx,
\* retries exhausted), no completion of a sendWebhook call is a raise: it
\* has not completed, or it returned normally.
C1_DispatchNeverRaises ==
    /\ dispatchResult \in {"none", "returned"}
    /\ dispatchPc = "done" => dispatchResult = "returned"

\* a fan-out to two endpoints completed, one delivery having exhausted its
\* retries and the other having succeeded
C1_Witness ==
    /\ dispatchPc = "done"
    /\ dispatchResult = "returned"
    /\ \E i, j \in DOMAIN deliveries :
          deliveries[i].st = "rejected" /\ deliveries[j].st = "fulfilled"

\* C2: a sendWebhook call has completed only when the delivery to every
\* subscribed endpoint has settled: none is attempting or backing off.
C2_ReturnsAfterAllSettled ==
    (dispatchPc = "done" \/ dispatchResult # "none") =>
        \A i \in DOMAIN deliveries : deliveries[i].st \in {"fulfilled", "rejected"}

\* a fan-out completed in which one delivery was rejected by its second
\* attempt and another delivery settled too
C2_Witness ==
    /\ dispatchPc = "done"
    /\ Len(deliveries) = 2
    /\ \E i \in DOMAIN deliveries :
          deliveries[i].st = "rejected" /\ deliveries[i].http = 2

\* C3: sendWebhook starts a delivery to every endpoint of the working set
\* that is subscribed to the event; a step in which one delivery of the fan-out fails, retries exhausted
\* or not, changes no other delivery of the fan-out; a delivery is rejected
\* only by the failure of its own last attempt, after as many HTTP requests
\* as its own retryAttempts, and fulfilled only by the success of its own
\* attempt.
C3_FailureIsolation ==
    [][/\ dispatches' = dispatches + 1 =>
            \A k \in DOMAIN webhooks :
                dispatchEvent' \in webhooks[k].events =>
                    \E i \in DOMAIN deliveries' :
                        /\ deliveries'[i].cfg = webhooks[k]
                        /\ deliveries'[i].st = "attempting"
       /\ \A i \in DOMAIN deliveries :
          (/\ dispatchPc = "fanning" /\ dispatchPc' = "fanning"
           /\ deliveries'[i] # deliveries[i])
          => /\ \A j \in DOMAIN deliveries : j # i => deliveries'[j] = deliveries[j]
             /\ deliveries'[i].st = "rejected" =>
                   /\ deliveries[i].st = "attempting"
                   /\ deliveries[i].attempt = maxRetriesOf(deliveries[i].cfg)
                   /\ deliveries[i].http = maxRetriesOf(deliveries[i].cfg)
             /\ deliveries'[i].st = "fulfilled" => deliveries[i].st = "attempting"]_vars

\* one delivery has exhausted its retries while the other delivery of the
\* fan-out is still running, on its second attempt
C3_Witness ==
    /\ dispatchPc = "fanning"
    /\ \E i, j \in DOMAIN deliveries :
          /\ deliveries[i].st = "rejected"
          /\ deliveries[j].st = "attempting"
          /\ deliveries[j].attempt = 2

\* C4: every delivery of a fan-out (its renders, HTTP requests and history
\* entry) is to an endpoint whose events contain the dispatched event, and
\* every history entry of the fan-out is one of those deliveries'; an
\* endpoint not subscribed to the event gets none.
C4_SubscribedOnly ==
    /\ \A i \in DOMAIN deliveries :
          /\ deliveries[i].event = dispatchEvent
          /\ dispatchEvent \in deliveries[i].cfg.events
    /\ \A k \in DOMAIN history :
          (history[k].by[1] = "dispatch" /\ history[k].by[2] = dispatches) =>
              \E i \in DOMAIN deliveries :
                  /\ deliveries[i].id = history[k].by
                  /\ history[k].webhookName = deliveries[i].cfg.name
                  /\ history[k].event \in deliveries[i].cfg.events

\* w1 is subscribed to pr_created and w2 to pr_merged; pr_created was
\* dispatched and completed with one delivery, to w1, and one history entry
C4_Witness ==
    /\ dispatchPc = "done"
    /\ dispatchEvent = "pr_created"
    /\ Len(webhooks) = 2
    /\ webhooks[1].events = {"pr_created"}
    /\ webhooks[2].events = {"pr_merged"}
    /\ Len(deliveries) = 1
    /\ deliveries[1].cfg = webhooks[1]
    /\ deliveries[1].http >= 1
    /\ Len(history) = 1
    /\ history[1].webhookName = "w1"

\* C5: the working set getWebhooks returns holds only endpoints with
\* enabled = TRUE, after construction and after every addWebhook and
\* removeWebhook; no delivery of a fan-out is to a disabled endpoint.
C5_EnabledOnly ==
    /\ \A i \in DOMAIN getWebhooks : getWebhooks[i].enabled = TRUE
    /\ \A i \in DOMAIN deliveries : deliveries[i].cfg.enabled = TRUE

\* an addWebhook or removeWebhook returned and reloaded a setting that
\* holds a disabled endpoint, which the working set leaves out
C5_Witness ==
    /\ regResult = "returned"
    /\ \E i \in DOMAIN storage.list : ~storage.list[i].enabled
    /\ Len(getWebhooks) < Len(storage.list)
    /\ Len(getWebhooks) >= 1


\* the history entries a call may have recorded by now, given how far it is
NoEntryYet(d) == EntriesBy(d) = {}

\* C6: a delivery to an endpoint with retryAttempts = N >= 1 whose every
\* attempt failed has issued exactly N HTTP requests and recorded exactly
\* one history entry, a failed one; a delivery that is still attempting or
\* backing off has issued at most N requests and recorded nothing; nothing
\* changes a settled delivery, so the dispatcher retries nothing.
C6_ExactlyNAttempts ==
    \A d \in Calling :
        d.cfg.retryAttempts >= 1 =>
            /\ d.st = "rejected" =>
                  /\ d.http = d.cfg.retryAttempts
                  /\ Cardinality(EntriesBy(d)) = 1
                  /\ \A k \in EntriesBy(d) : history[k].success = FALSE
            /\ d.st \in {"attempting", "backoff"} =>
                  /\ d.http <= d.cfg.retryAttempts
                  /\ NoEntryYet(d)

\* a fan-out completed in which the delivery to an endpoint with
\* retryAttempts = 2 failed twice, and recorded its failure
C6_Witness ==
    /\ dispatchPc = "done"
    /\ \E i \in DOMAIN deliveries :
          /\ deliveries[i].cfg.retryAttempts = 2
          /\ deliveries[i].st = "rejected"
          /\ deliveries[i].http = 2
          /\ \E k \in DOMAIN history :
                history[k].by = deliveries[i].id /\ ~history[k].success

\* the number of failed attempts of a delivery that were followed by a wait
WaitsDue(d) == IF d.st = "backoff" THEN d.attempt ELSE d.attempt - 1

C8_EarlySuccess ==
    \A d \in Calling :
        (d.st = "fulfilled" /\ d.cfg.retryAttempts >= 1) =>
            /\ d.http = d.attempt
            /\ d.attempt <= d.cfg.retryAttempts
            /\ Cardinality(EntriesBy(d)) = 1
            /\ \A k \in EntriesBy(d) : history[k].success = TRUE

\* a delivery succeeded at its second attempt
C8_Witness ==
    /\ dispatchPc = "done"
    /\ \E i \in DOMAIN deliveries :
          /\ deliveries[i].st = "fulfilled"
          /\ deliveries[i].attempt = 2
          /\ deliveries[i].http = 2
          /\ \E k \in DOMAIN history :
                history[k].by = deliveries[i].id /\ history[k].success

\* C9: the history log never holds more than 100 entries.
C9_HistoryBounded == Len(history) <= HistoryCap

\* more than 100 entries were recorded and the log holds 100
C9_Witness == recorded > HistoryCap /\ Len(history) = HistoryCap

\* C10: after M addHistoryEntry calls getWebhookHistory returns the
\* min(M, 100) entries recorded last, the last recorded first.
C10_MostRecentFirst ==
    /\ Len(getWebhookHistory) = Min(recorded, HistoryCap)
    /\ \A i \in DOMAIN getWebhookHistory :
          getWebhookHistory[i].seq = recorded - i + 1

\* 150 entries were recorded: the log holds the entries 150 down to 51
C10_Witness ==
    /\ recorded = 150
    /\ Len(getWebhookHistory) = 100
    /\ getWebhookHistory[1].seq = 150
    /\ getWebhookHistory[100].seq = 51

\* the positions of the history entries the current fan-out recorded
FanoutEntries ==
    {k \in DOMAIN history :
        history[k].by[1] = "dispatch" /\ history[k].by[2] = dispatches}

\* C11: when a fan-out to k endpoints has completed, each of its deliveries
\* has recorded exactly one history entry, its final outcome, whatever the
\* order in which the deliveries settled; the fan-out recorded k entries in
\* all, and below capacity the log holds every entry recorded so far, each
\* once.
C11_OneEntryPerEndpoint ==
    /\ dispatchPc = "done" =>
          /\ \A i \in DOMAIN deliveries :
                /\ Cardinality(EntriesBy(deliveries[i])) = 1
                /\ \A k \in EntriesBy(deliveries[i]) :
                      /\ history[k].webhookName = deliveries[i].cfg.name
                      /\ history[k].success = (deliveries[i].st = "fulfilled")
          /\ Cardinality(FanoutEntries) = Len(deliveries)
    /\ recorded < HistoryCap =>
          /\ Len(history) = recorded
          /\ \A i, j \in DOMAIN history : i # j => history[i].seq # history[j].seq

\* a fan-out to two endpoints completed, the second delivery having settled
\* first and the first having retried: the log holds two entries
C11_Witness ==
    /\ dispatchPc = "done"
    /\ Len(deliveries) = 2
    /\ deliveries[1].http = 2
    /\ Len(history) = 2
    /\ history[1].by = deliveries[1].id
    /\ history[2].by = deliveries[2].id

\* C12: no two entries of the history log carry the same id.
C12_UniqueIds ==
    \A i, j \in DOMAIN history : i # j => history[i].id # history[j].id

(***************************************************************************)
(* The registry: addWebhook, removeWebhook, loadConfiguration.             *)
(***************************************************************************)

\* a call of addWebhook or removeWebhook completes in this step; regDone'
\* describes it
CallCompletes == Len(regOps') < Len(regOps)

NamesUnique(l) == \A i, j \in DOMAIN l : i # j => l[i].name # l[j].name

HasName(l, name) == \E k \in DOMAIN l : l[k].name = name

\* new is base with the entry named like w replaced in place, or with w
\* appended if base has no such entry
IsUpsertOf(new, base, w) ==
    IF HasName(base, w.name)
    THEN /\ Len(new) = Len(base)
         /\ \A k \in DOMAIN base :
               new[k] = IF base[k].name = w.name THEN w ELSE base[k]
    ELSE new = Append(base, w)

C14_WriteFailureKeepsWorkingSet ==
    [][(CallCompletes /\ regDone'.kind = "add" /\ regDone'.cause = "write") =>
          /\ regResult' = "raised"
          /\ webhooks' = webhooks
          /\ storage' = storage]_vars

\* addWebhook raised on a rejected write of a list whose reload would have
\* changed the non-empty working set
C14_Witness ==
    /\ regDone.kind = "add"
    /\ regDone.cause = "write"
    /\ regResult = "raised"
    /\ regOps = <<>>
    /\ webhooks # <<>>
    /\ webhooks # loadConfiguration(ArrayStorage(regDone.value))

\* C15: a removeWebhook call whose write did not fail returns; for a name
\* the stored list does not hold it leaves the list as it is, for a name it
\* holds it writes the list without the entries of that name.
C15_RemoveAbsentIsNoOp ==
    (regDone.kind = "remove" /\ regDone.cause # "write") =>
        /\ regDone.cause = "none"
        /\ ~HasName(regDone.base, regDone.name) => regDone.value = regDone.base
        /\ \A k \in DOMAIN regDone.value : regDone.value[k].name # regDone.name
        /\ \A k \in DOMAIN regDone.base :
              regDone.base[k].name # regDone.name =>
                  \E m \in DOMAIN regDone.value : regDone.value[m] = regDone.base[k]

\* C16: when the stored setting cannot be read as an array the working set
\* is empty, and a dispatch returns without starting a delivery or recording
\* an entry.
C16_LoadFailsSoft ==
    ~Readable(storage) =>
        /\ webhooks = <<>>
        /\ dispatchPc # "idle" =>
              /\ dispatchPc = "done"
              /\ deliveries = <<>>
              /\ dispatchResult = "returned"
        /\ \A k \in DOMAIN history : history[k].by[1] # "dispatch"

\* the setting is an object holding an enabled endpoint subscribed to
\* pr_created, and a dispatch of pr_created has returned
C16_Witness ==
    /\ storage.shape = "object"
    /\ storage.list # <<>>
    /\ dispatchPc = "done"
    /\ dispatchEvent = "pr_created"

(***************************************************************************)
(* Exhaustion of a delivery.                                               *)
(***************************************************************************)

\* the promises of the fan-out whose sendToWebhook call throws in this step
Exhausting ==
    {i \in DOMAIN deliveries :
        /\ i \in DOMAIN deliveries'
        /\ deliveries'[i].id = deliveries[i].id
        /\ deliveries[i].st # "rejected"
        /\ deliveries'[i].st = "rejected"}

\* the sendToWebhook call of testWebhook throws in this step
TestExhausting ==
    /\ testPc = "running"
    /\ testDelivery.st # "rejected"
    /\ testDelivery'.st = "rejected"

\* C19: a delivery whose attempts all failed has one entry in the log, a
\* failed one with the error of its last attempt, and a delivery still
\* attempting or waiting has none; a warning is shown in exactly the steps
\* in which a delivery gives up, one per delivery; the count of failures
\* sendWebhook logs is the number of its deliveries that gave up.
C19_Exhaustion ==
    /\ [](/\ \A d \in Calling :
                /\ d.st = "rejected" =>
                      /\ d.http = d.maxRetries
                      /\ d.error \in ErrorTexts
                      /\ Cardinality(EntriesBy(d)) = 1
                      /\ \A k \in EntriesBy(d) :
                            /\ ~history[k].success
                            /\ history[k].error = d.error
                /\ d.st \in {"attempting", "backoff"} => EntriesBy(d) = {}
          /\ (dispatchPc = "done" /\ deliveries # <<>>) =>
                failures = Cardinality({i \in DOMAIN deliveries :
                                         Cardinality(EntriesBy(deliveries[i])) = 1
                                         /\ \A k \in EntriesBy(deliveries[i]) :
                                               ~history[k].success}))
    /\ [][warnings' = warnings + Cardinality(Exhausting)
                               + (IF TestExhausting THEN 1 ELSE 0)]_vars

\* a fan-out to two endpoints completed: the first delivery gave up after
\* its second attempt, the second succeeded; one warning was shown and one
\* failure counted
C19_Witness ==
    /\ dispatchPc = "done"
    /\ Len(deliveries) = 2
    /\ deliveries[1].st = "rejected"
    /\ deliveries[1].http = 2
    /\ deliveries[1].waits # <<>>
    /\ deliveries[2].st = "fulfilled"
    /\ warnings = 1
    /\ failures = 1

(***************************************************************************)
(* testWebhook.                                                            *)
(***************************************************************************)

\* a step of a testWebhook call
TestStep == <<testPc, testDelivery, testResult, tests>>'
                # <<testPc, testDelivery, testResult, tests>>

\* C20: a testWebhook call issues one HTTP request and asks for no backoff
\* wait; it completes by returning a boolean, true exactly when the request
\* succeeded (the entry it recorded is a success); no step of the call
\* changes the working set or the stored setting.
C20_TestWebhook ==
    /\ [](/\ testPc # "idle" =>
                /\ testDelivery.http = 1
                /\ testDelivery.waits = <<>>
                /\ testDelivery.st # "backoff"
          /\ testPc = "done" =>
                /\ testResult \in BOOLEAN
                /\ Cardinality(EntriesBy(testDelivery)) = 1
                /\ \A k \in EntriesBy(testDelivery) :
                      testResult = history[k].success)
    /\ [][TestStep => (webhooks' = webhooks /\ storage' = storage)]_vars

\* testWebhook returned false after its only request failed, with endpoints
\* configured
C20_Witness ==
    /\ testPc = "done"
    /\ testResult = FALSE
    /\ testDelivery.st = "rejected"
    /\ testDelivery.http = 1
    /\ webhooks # <<>>

(***************************************************************************)
(* The working set and its copies.                                         *)
(***************************************************************************)

\* the configurations of the deliveries of the fan-out, in order
Dispatched(ds) == [i \in DOMAIN ds |-> ds[i].cfg]

\* the entries of l subscribed to ev, in order
SubscribedTo(l, ev) ==
    LET Wants(w) == ev \in w.events
    IN  SelectSeq(l, Wants)

\* C17: whatever a caller does with the array getWebhooks returned, a
\* dispatch delivers to the enabled stored endpoints subscribed to its
\* event (no addWebhook or removeWebhook was called, the setting is an
\* array nobody edited).
C17_DefensiveCopy ==
    (dispatchPc # "idle" /\ regCalls = 0 /\ edits = 0 /\ Readable(storage)) =>
        Dispatched(deliveries) =
            SubscribedTo(SelectSeq(storage.list, IsEnabled), dispatchEvent)

\* C18: a change made to the stored setting from outside leaves the working
\* set as it is; a sendWebhook call delivers to the subscribed endpoints of
\* the working set it finds and changes neither the working set nor the
\* setting; the working set changes only in the reload of an addWebhook or
\* removeWebhook call that returns.
C18_Snapshot ==
    [][/\ edits' # edits => webhooks' = webhooks
       /\ dispatches' # dispatches =>
             /\ Dispatched(deliveries') = SubscribedTo(webhooks, dispatchEvent')
             /\ webhooks' = webhooks
             /\ storage' = storage
       /\ webhooks' # webhooks => (CallCompletes /\ regDone'.cause = "none")]_vars

\* the stored setting had w1 disabled from outside, and the sendWebhook call
\* made after that delivers to w1
C18_Witness ==
    /\ edits = 1
    /\ editsSeen = 1
    /\ regCalls = 0
    /\ storage.list # <<>>
    /\ storage.list[1].name = "w1"
    /\ ~storage.list[1].enabled
    /\ deliveries # <<>>
    /\ deliveries[1].cfg.name = "w1"

(***************************************************************************)
(* The HTTP request of an attempt.                                         *)
(***************************************************************************)

\* C21: the request of every HTTP attempt carries the headers configured
\* for its endpoint, next to Content-Type application/json and the fixed
\* User-Agent.
C21_CustomHeaders ==
    \A d \in Calling :
        d.http >= 1 =>
            /\ d.cfg.headers \subseteq d.request.headers
            /\ <<"Content-Type", "application/json">> \in d.request.headers
            /\ <<"User-Agent", "Smart-PR-Creator-Extension">> \in d.request.headers

(***************************************************************************)
(* A dispatch nobody is subscribed to.                                     *)
(***************************************************************************)

\* C26: a sendWebhook call for an event no endpoint of the working set is
\* subscribed to returns in the step it is made: it starts no delivery (no
\* body, no request), records nothing, shows no warning and leaves the
\* working set and the stored setting as they are.
C26_NoSubscriberNoOp ==
    [][(dispatches' # dispatches /\ SubscribedTo(webhooks, dispatchEvent') = <<>>) =>
          /\ dispatchPc' = "done"
          /\ dispatchResult' = "returned"
          /\ deliveries' = <<>>
          /\ history' = history
          /\ recorded' = recorded
          /\ warnings' = warnings
          /\ webhooks' = webhooks
          /\ storage' = storage]_vars

\* the working set holds endpoints, none subscribed to pr_merged, and the
\* sendWebhook call for pr_merged has returned
C26_Witness ==
    /\ dispatchPc = "done"
    /\ dispatchEvent = "pr_merged"
    /\ dispatchResult = "returned"
    /\ Len(webhooks) >= 1
    /\ \A k \in DOMAIN webhooks : "pr_merged" \notin webhooks[k].events
    /\ deliveries = <<>>
    /\ history = <<>>

(***************************************************************************)
(* Termination and what a returned delivery has done.                      *)
(***************************************************************************)

\* the entries a delivery recorded that say the request succeeded
SuccessesBy(d) == {k \in EntriesBy(d) : history[k].success}

\* the entries a delivery recorded that say it failed, with an error text
FailuresBy(d) ==
    {k \in EntriesBy(d) : ~history[k].success /\ history[k].error \in ErrorTexts}

\* a fan-out that has started completes
C27_Terminates == (dispatchPc = "fanning") ~> (dispatchPc = "done")

\* C27: a fan-out that has started completes, whatever retryAttempts its
\* endpoints have and however many of its requests fail; once it has
\* completed, every endpoint that did not accept a request (no success
\* entry) has exactly one failed entry with an error text.
C27_DispatchTerminates ==
    /\ C27_Terminates
    /\ [](dispatchPc = "done" =>
             \A d \in Fanout :
                 SuccessesBy(d) = {} =>
                     (Cardinality(EntriesBy(d)) = 1 /\ Cardinality(FailuresBy(d)) = 1))

\* C29: a sendToWebhook call that has returned made at least one HTTP
\* request, its last request succeeded, and it recorded exactly one history
\* entry, a success.
C29_SuccessNeedsAttempt ==
    \A d \in Calling :
        d.st = "fulfilled" =>
            /\ d.http >= 1
            /\ d.request # NoRequest
            /\ Cardinality(EntriesBy(d)) = 1
            /\ Cardinality(SuccessesBy(d)) = 1

(***************************************************************************)
(* Calls that overlap.                                                     *)
(***************************************************************************)

\* C28: while a fan-out is in flight its deliveries stay the ones started
\* when sendWebhook was called, each with the configuration it was started
\* with, and a completing addWebhook or removeWebhook changes no delivery.
C28_InFlightSnapshot ==
    [][(dispatchPc = "fanning" /\ dispatches' = dispatches) =>
          /\ DOMAIN deliveries' = DOMAIN deliveries
          /\ \A i \in DOMAIN deliveries :
                /\ deliveries'[i].id = deliveries[i].id
                /\ deliveries'[i].cfg = deliveries[i].cfg
                /\ deliveries'[i].request.method = "POST" =>
                      deliveries'[i].request.url = deliveries[i].cfg.url
          /\ CallCompletes => deliveries' = deliveries]_vars

\* removeWebhook("w1") returned while the delivery to w1 was waiting to
\* retry: w1 has left the working set, and its delivery went on to a second
\* request and succeeded
C28_Witness ==
    /\ regDone.kind = "remove"
    /\ regDone.name = "w1"
    /\ regDone.cause = "none"
    /\ ~HasName(webhooks, "w1")
    /\ deliveries # <<>>
    /\ deliveries[1].cfg.name = "w1"
    /\ deliveries[1].http = 2
    /\ deliveries[1].st = "fulfilled"

\* C30: the write of an addWebhook call that returns keeps every endpoint
\* the setting holds at that moment: no endpoint stored by an addWebhook
\* that returned earlier is dropped by it.
C30_NoLostAdd ==
    [][(CallCompletes /\ regDone'.kind = "add" /\ regDone'.cause = "none") =>
          \A k \in DOMAIN storage.list :
              HasName(storage'.list, storage.list[k].name)]_vars

(***************************************************************************)
(* The rendered card.                                                      *)
(***************************************************************************)

\* the input facts of a payload: a description with a character that is not
\* white space, a URL, an AI model
HasDescription(p) ==
    \E i \in DOMAIN p.pullRequest.description :
        p.pullRequest.description[i] \notin Whitespace
HasUrl(p) == p.pullRequest.url # NoUrl
HasAiModel(p) == p.pullRequest.aiGenerated /\ p.pullRequest.modelUsed # NoModel

\* the elements of a message
DescriptionSections(m) ==
    {k \in DOMAIN m.sections : m.sections[k].activityTitle = "Description"}
AiFacts(m) ==
    {<<k, f>> \in (DOMAIN m.sections) \X (1..7) :
        f \in DOMAIN m.sections[k].facts /\ m.sections[k].facts[f] = "AI Generated"}

\* C22: the card rendered for a payload has one description section if the
\* description has text and none otherwise, one action link if there is a
\* URL and none otherwise, one AI fact if there is an AI model and none
\* otherwise, each whatever the other two inputs are; with none of the
\* three inputs the card has exactly one section.
C22_GracefulRender ==
    message # NotRendered =>
        /\ Cardinality(DescriptionSections(message)) = (IF HasDescription(payload) THEN 1 ELSE 0)
        /\ Len(message.sections) = 1 + Cardinality(DescriptionSections(message))
        /\ Len(message.potentialAction) = (IF HasUrl(payload) THEN 1 ELSE 0)
        /\ Cardinality(AiFacts(message)) = (IF HasAiModel(payload) THEN 1 ELSE 0)

\* a card rendered for a white-space-only description, no URL and
\* aiGenerated = false (with a model name given): one section, no link
C22_Witness ==
    /\ message # NotRendered
    /\ payload.pullRequest.description = <<" ", "\n">>
    /\ payload.pullRequest.url = NoUrl
    /\ ~payload.pullRequest.aiGenerated
    /\ payload.pullRequest.modelUsed # NoModel
    /\ Len(message.sections) = 1
    /\ message.potentialAction = <<>>

(***************************************************************************)
(* The extension around the service.                                       *)
(***************************************************************************)

\* C23: a createPullRequest call that created the PR completes by returning
\* the result, whatever happened while the notification was built and
\* dispatched.
C23_WorkflowSurvives ==
    (pr.pc = "done" /\ pr.created) => pr.outcome = "returned"

\* createPullRequest returned its result after a fan-out in which the
\* delivery to w1 gave up after its retries
C23_Witness ==
    /\ pr.pc = "done"
    /\ pr.created
    /\ pr.outcome = "returned"
    /\ dispatchPc = "done"
    /\ deliveries # <<>>
    /\ deliveries[1].st = "rejected"
    /\ deliveries[1].http = MaxRetry
    /\ failures >= 1

\* C24: once the registry has been loaded after the Add New Webhook command,
\* every endpoint the command added with PR Created selected is in the
\* working set.
C24_CommandEndpointLoaded ==
    command.loaded => \A name \in command.added : HasName(webhooks, name)

\* C25: what View Webhook History displayed holds every entry the
\* dispatching service had recorded at that moment.
C25_HistoryShown ==
    shown.viewed =>
        \A k \in DOMAIN shown.recorded :
            \E j \in DOMAIN shown.list : shown.list[j] = shown.recorded[k]

====
